---- MODULE Spec2Model ----
(***************************************************************************)
(* Customer segmentation web application.                                  *)
(*                                                                         *)
(*   app.py        the HTML front end: /analyze fits KMeans per request    *)
(*                 and derives the marketing insights (generate_insights). *)
(*   run.py        the JSON API: /api/v1/segment/income and /age.          *)
(*   app/model.py  cluster_income / cluster_age: pretrained KMeans models  *)
(*                 and two module-level StandardScaler objects.            *)
(*                                                                         *)
(* Numbers.  Ages, incomes (k$) and spending scores are integers, as in    *)
(* the data set the application is written for.  A mean is kept as the     *)
(* exact fraction sum/n; comparisons and roundings of means are computed   *)
(* on that fraction.  A gender percentage is computed in the code from a   *)
(* float64 quotient times 100, whose rounding error decides the result     *)
(* near a tie, so that computation is carried out on IEEE-754 binary64     *)
(* values.                                                                 *)
(***************************************************************************)
EXTENDS Integers, Sequences, FiniteSets, TLC

VARIABLES
    df,            \* generate_insights: the clustered DataFrame it is given
    insights,      \* generate_insights: the list it builds and returns
    returned,      \* generate_insights: TRUE once it has returned
    models,        \* app/model.py: kmeans_income and kmeans_age, loaded at import
    scaler_income, \* app/model.py: the module-level StandardScaler of cluster_income
    scaler_age,    \* app/model.py: the module-level StandardScaler of cluster_age
    uploads,       \* the files of the uploads directory, by name
    downloads,     \* the files of the downloads directory, by name
    request,       \* per request: the route and the uploaded file part
    pc,            \* per request: where its handler stands
    local,         \* per request: the handler's locals (df, X_scaled's scaler)
    resp,          \* per request: the response given to the caller
    effects        \* per request: what the handler did (saved, clustered, wrote)

funcVars == <<df, insights, returned>>
serviceVars ==
    <<models, scaler_income, scaler_age, uploads, downloads, request, pc, local,
      resp, effects>>
vars == <<df, insights, returned, models, scaler_income, scaler_age, uploads,
          downloads, request, pc, local, resp, effects>>

(***************************************************************************)
(* Generic helpers                                                         *)
(***************************************************************************)
Range(s) == {s[i] : i \in DOMAIN s}

RECURSIVE SumRange(_, _, _)
\* s[lo] + ... + s[hi], by halving
SumRange(s, lo, hi) ==
    IF lo > hi THEN 0
    ELSE IF lo = hi THEN s[lo]
    ELSE LET mid == (lo + hi) \div 2
         IN SumRange(s, lo, mid) + SumRange(s, mid + 1, hi)

SumSeq(s) == SumRange(s, 1, Len(s))

RECURSIVE SortedSeq(_)
\* the elements of a finite set of integers in ascending order
SortedSeq(S) ==
    IF S = {} THEN <<>>
    ELSE LET m == CHOOSE x \in S : \A y \in S : x <= y
         IN <<m>> \o SortedSeq(S \ {m})

(***************************************************************************)
(* IEEE-754 binary64 arithmetic.  A significand does not fit the checker's *)
(* integers, so a natural number is kept as a sequence of limbs in base    *)
(* 2^LimbBits, least significant first (<<>> is zero).  A positive double  *)
(* is [m |-> significand, e |-> exponent], of value m * 2^e, with          *)
(* 2^52 <= m <= 2^53.                                                      *)
(***************************************************************************)
MantissaBits == 53
LimbBits == 10

RECURSIVE Pow2(_)
Pow2(n) == IF n = 0 THEN 1 ELSE 2 * Pow2(n - 1)

Base == Pow2(LimbBits)

Zeros(n) == [i \in 1..n |-> 0]

RECURSIVE Normalize(_)
\* without its most significant zero limbs
Normalize(x) ==
    IF x # <<>> /\ x[Len(x)] = 0 THEN Normalize(SubSeq(x, 1, Len(x) - 1)) ELSE x

RECURSIVE MulCarry(_, _, _)
MulCarry(x, k, carry) ==
    IF x = <<>>
    THEN IF carry = 0 THEN <<>>
         ELSE <<carry % Base>> \o MulCarry(<<>>, k, carry \div Base)
    ELSE LET v == x[1] * k + carry
         IN <<v % Base>> \o MulCarry(Tail(x), k, v \div Base)

\* x * k for a small k
BigMulSmall(x, k) == Normalize(MulCarry(x, k, 0))

\* x + k for a small k
BigAddSmall(x, k) == Normalize(MulCarry(x, 1, k))

RECURSIVE DivRem(_, _)
\* quotient and remainder of x by a small k
DivRem(x, k) ==
    IF x = <<>> THEN [q |-> <<>>, r |-> 0]
    ELSE LET hi == DivRem(Tail(x), k)
             v  == hi.r * Base + x[1]
         IN [q |-> <<v \div k>> \o hi.q, r |-> v % k]

RECURSIVE BigToNat(_)
\* the value of a number known to be small
BigToNat(x) == IF x = <<>> THEN 0 ELSE x[1] + Base * BigToNat(Tail(x))

Pow2Big(k) == Zeros(k \div LimbBits) \o <<Pow2(k % LimbBits)>>

\* number of bits of x > 0 (x normalized)
BitLen(x) ==
    LET top == x[Len(x)]
    IN (Len(x) - 1) * LimbBits
         + (CHOOSE n \in 1..LimbBits : Pow2(n - 1) <= top /\ top < Pow2(n))

\* bit i of x (bit 0 is the least significant)
BitAt(x, i) ==
    LET j == i \div LimbBits + 1
    IN IF j > Len(x) THEN 0 ELSE (x[j] \div Pow2(i % LimbBits)) % 2

\* some bit of x below bit i is 1
LowNonzero(x, i) ==
    \E j \in DOMAIN x :
        \/ j < i \div LimbBits + 1 /\ x[j] # 0
        \/ j = i \div LimbBits + 1 /\ x[j] % Pow2(i % LimbBits) # 0

\* floor(x / 2^s)
ShiftRight(x, s) ==
    LET n == s \div LimbBits
    IN IF n >= Len(x) THEN <<>>
       ELSE Normalize(DivRem(SubSeq(x, n + 1, Len(x)), Pow2(s % LimbBits)).q)

\* x / 2^s rounded to nearest, ties to even; `sticky`: the exact value is
\* above x by less than one unit
RoundNearestEven(x, s, sticky) ==
    LET q == ShiftRight(x, s)
    IN IF s = 0 THEN q
       ELSE LET guard == BitAt(x, s - 1)
                st    == sticky \/ LowNonzero(x, s - 1)
                odd   == BitAt(q, 0) = 1
            IN IF guard = 1 /\ (st \/ odd) THEN BigAddSmall(q, 1) ELSE q

\* number of zero bits after the binary point of c/t before the first 1
LeadingZeros(c, t) ==
    CHOOSE z \in 0..30 : c * Pow2(z + 1) >= t /\ c * Pow2(z) < t

\* float64 quotient c / t, for 0 < c < t
FloatDiv(c, t) ==
    LET z == LeadingZeros(c, t)
        d == DivRem(BigMulSmall(Pow2Big(z + MantissaBits + 1), c), t)
    IN [m |-> RoundNearestEven(Normalize(d.q), 1, d.r # 0),
        e |-> -(z + MantissaBits)]

\* float64 product x * 100
FloatMul100(x) ==
    LET p == BigMulSmall(x.m, 100)
        d == BitLen(p) - MantissaBits
    IN [m |-> RoundNearestEven(p, d, FALSE), e |-> x.e + d]

\* round(y) of a float64 0 < y < 2^MantissaBits: an integer, ties to even
FloatRound(y) == BigToNat(RoundNearestEven(y.m, -y.e, FALSE))

(***************************************************************************)
(* pandas / Python primitives used by generate_insights                    *)
(***************************************************************************)
NaN == "NaN"            \* a missing cell

\* round-half-to-even of the fraction p/q (q > 0, p >= 0) to an integer
RoundHalfEven(p, q) ==
    LET fl == p \div q
        r  == p % q
    IN IF 2 * r < q THEN fl
       ELSE IF 2 * r > q THEN fl + 1
       ELSE IF fl % 2 = 0 THEN fl ELSE fl + 1

\* df[df['Cluster'] == cluster_id]
ClusterData(rows, cluster_id) ==
    SelectSeq(rows, LAMBDA r : r.Cluster = cluster_id)

\* groupby(..., sort=False): the group keys in order of first appearance
GroupKeysUnsorted(rows) ==
    LET first == SelectSeq([i \in DOMAIN rows |-> i],
                           LAMBDA i : \A j \in 1..(i - 1) : rows[j].Cluster # rows[i].Cluster)
    IN [k \in DOMAIN first |-> rows[first[k]].Cluster]

\* df.groupby('Cluster')[...].mean(): the group keys, in ascending order
GroupKeys(rows) == SortedSeq({rows[i].Cluster : i \in DOMAIN rows})

\* one row of the groupby mean: each mean as the exact fraction sum / n
GroupMean(rows) ==
    [Age    |-> [sum |-> SumSeq([i \in DOMAIN rows |-> rows[i].Age]),    n |-> Len(rows)],
     Income |-> [sum |-> SumSeq([i \in DOMAIN rows |-> rows[i].Income]), n |-> Len(rows)],
     Score  |-> [sum |-> SumSeq([i \in DOMAIN rows |-> rows[i].Score]),  n |-> Len(rows)]]

\* mean > k and mean < k for an integer k
Above(mean, k) == mean.sum > k * mean.n
Below(mean, k) == mean.sum < k * mean.n

\* round(mean, 1), in tenths, and round(mean, 0)
Round1(mean) == RoundHalfEven(10 * mean.sum, mean.n)
Round0(mean) == RoundHalfEven(mean.sum, mean.n)

\* round(cluster_data['Gender'].value_counts(normalize=True).get(g, 0) * 100):
\* value_counts drops missing cells and divides by the number of cells left
GenderPct(rows, g) ==
    LET c == Cardinality({i \in DOMAIN rows : rows[i].Gender = g})
        t == Cardinality({i \in DOMAIN rows : rows[i].Gender # NaN})
    IN IF c = 0 THEN 0
       ELSE IF c = t THEN 100
       ELSE FloatRound(FloatMul100(FloatDiv(c, t)))

(***************************************************************************)
(* app.py: generate_insights                                               *)
(***************************************************************************)
DescYoungVip    == "Young, wealthy, and loves to spend. Target for luxury fashion and trending tech."
ActionYoungVip  == "Campaign: Instagram/TikTok Influencers promoting exclusive 'Drops'."
DescEstablished == "Established wealth with high consumption habits."
ActionEstablished == "Campaign: Exclusive VIP Club membership & Concierge services."
DescSavers      == "High earning potential but careful with money."
ActionSavers    == "Campaign: Focus on 'Value for Money', Investment products, or 'Buy It For Life' quality."
DescTrend       == "Likely students or young professionals spending on trends."
ActionTrend     == "Campaign: Flash Sales, 'Buy Now Pay Later' offers, and discount coupons."
DescBudget      == "Strict budget constraints. Only buys essentials."
ActionBudget    == "Campaign: Clearance sales, bulk discounts, and loyalty points."
DescAverage     == "Steady income and average spending habits."
ActionAverage   == "Campaign: Standard newsletter, seasonal promotions, and retention offers."

\* the gender chain with inclusive comparisons (>= 55)
GenderProfileInclusive(female_pct, male_pct) ==
    IF female_pct >= 55
    THEN [gender_profile |-> "Female Dominated", gender_icon |-> "bi-gender-female"]
    ELSE IF male_pct >= 55
    THEN [gender_profile |-> "Male Dominated", gender_icon |-> "bi-gender-male"]
    ELSE [gender_profile |-> "Balanced", gender_icon |-> "bi-gender-ambiguous"]

\* the if / elif chain on female_pct and male_pct
GenderProfile(female_pct, male_pct) ==
    IF female_pct > 55
    THEN [gender_profile |-> "Female Dominated", gender_icon |-> "bi-gender-female"]
    ELSE IF male_pct > 55
    THEN [gender_profile |-> "Male Dominated", gender_icon |-> "bi-gender-male"]
    ELSE [gender_profile |-> "Balanced", gender_icon |-> "bi-gender-ambiguous"]

\* the label chain with inclusive comparisons (>= 70, <= 40, >= 60)
ClassifyInclusive(income, score, avg_age) ==
    IF ~Below(income, 70) /\ ~Below(score, 70)
    THEN IF Below(avg_age, 35)
         THEN [label |-> "VIP / Big Spenders", color |-> "success",
               desc |-> DescYoungVip, action |-> ActionYoungVip]
         ELSE [label |-> "VIP / Big Spenders", color |-> "success",
               desc |-> DescEstablished, action |-> ActionEstablished]
    ELSE IF ~Below(income, 70) /\ ~Above(score, 40)
    THEN [label |-> "Wealthy Savers", color |-> "warning",
          desc |-> DescSavers, action |-> ActionSavers]
    ELSE IF ~Above(income, 40) /\ ~Below(score, 60)
    THEN [label |-> "Young Trendsetters", color |-> "info",
          desc |-> DescTrend, action |-> ActionTrend]
    ELSE IF ~Above(income, 40) /\ ~Above(score, 40)
    THEN [label |-> "Budget Conscious", color |-> "secondary",
          desc |-> DescBudget, action |-> ActionBudget]
    ELSE [label |-> "Average Customer", color |-> "primary",
          desc |-> DescAverage, action |-> ActionAverage]

\* the if / elif chain on the cluster means
Classify(income, score, avg_age) ==
    IF Above(income, 70) /\ Above(score, 70)
    THEN IF Below(avg_age, 35)
         THEN [label |-> "VIP / Big Spenders", color |-> "success",
               desc |-> DescYoungVip, action |-> ActionYoungVip]
         ELSE [label |-> "VIP / Big Spenders", color |-> "success",
               desc |-> DescEstablished, action |-> ActionEstablished]
    ELSE IF Above(income, 70) /\ Below(score, 40)
    THEN [label |-> "Wealthy Savers", color |-> "warning",
          desc |-> DescSavers, action |-> ActionSavers]
    ELSE IF Below(income, 40) /\ Above(score, 60)
    THEN [label |-> "Young Trendsetters", color |-> "info",
          desc |-> DescTrend, action |-> ActionTrend]
    ELSE IF Below(income, 40) /\ Below(score, 40)
    THEN [label |-> "Budget Conscious", color |-> "secondary",
          desc |-> DescBudget, action |-> ActionBudget]
    ELSE [label |-> "Average Customer", color |-> "primary",
          desc |-> DescAverage, action |-> ActionAverage]

\* the loop body reporting the income under avg_score and the score under avg_income
InsightOfSwapped(rows, cluster_id) ==
    LET cluster_data == ClusterData(rows, cluster_id)
        row          == GroupMean(cluster_data)
        female_pct   == GenderPct(cluster_data, "Female")
        male_pct     == GenderPct(cluster_data, "Male")
        g            == GenderProfile(female_pct, male_pct)
        c            == Classify(row.Income, row.Score, row.Age)
    IN [cluster        |-> cluster_id,
        label          |-> c.label,
        color          |-> c.color,
        size           |-> Len(cluster_data),
        avg_income     |-> Round1(row.Score),
        avg_score      |-> Round1(row.Income),
        avg_age        |-> Round0(row.Age),
        gender_profile |-> g.gender_profile,
        gender_icon    |-> g.gender_icon,
        female_pct     |-> female_pct,
        male_pct       |-> male_pct,
        desc           |-> c.desc,
        action         |-> c.action]

\* the body of the loop over cluster_means.iterrows()
InsightOf(rows, cluster_id) ==
    LET cluster_data == ClusterData(rows, cluster_id)
        row          == GroupMean(cluster_data)
        female_pct   == GenderPct(cluster_data, "Female")
        male_pct     == GenderPct(cluster_data, "Male")
        g            == GenderProfile(female_pct, male_pct)
        c            == Classify(row.Income, row.Score, row.Age)
    IN [cluster        |-> cluster_id,
        label          |-> c.label,
        color          |-> c.color,
        size           |-> Len(cluster_data),
        avg_income     |-> Round1(row.Income),
        avg_score      |-> Round1(row.Score),
        avg_age        |-> Round0(row.Age),
        gender_profile |-> g.gender_profile,
        gender_icon    |-> g.gender_icon,
        female_pct     |-> female_pct,
        male_pct       |-> male_pct,
        desc           |-> c.desc,
        action         |-> c.action]

generate_insights(rows) ==
    LET keys == GroupKeys(rows)
    IN [k \in DOMAIN keys |-> InsightOf(rows, keys[k])]

(***************************************************************************)
(* Uploaded files.  A file name is a sequence of characters; a CSV file is *)
(* its header (the raw column names) and its rows, each aligned with the   *)
(* header.                                                                 *)
(***************************************************************************)
K == 5                  \* n_clusters

ColGender == "Gender"
ColAge    == "Age"
ColIncome == "Annual Income (k$)"
ColScore  == "Spending Score (1-100)"

\* c.strip() on the column names that occur
Strip(c) ==
    CASE c = " Age"    -> ColAge
      [] c = "Gender " -> ColGender
      [] OTHER         -> c

\* ch.lower() on the characters that occur
Lower(ch) ==
    CASE ch = "C" -> "c"
      [] ch = "S" -> "s"
      [] ch = "V" -> "v"
      [] OTHER    -> ch

ALLOWED_EXTENSIONS == {<<"c", "s", "v">>}

\* '.' in filename and filename.rsplit('.', 1)[1].lower() in ALLOWED_EXTENSIONS
allowed_file(filename) ==
    /\ \E i \in DOMAIN filename : filename[i] = "."
    /\ LET dot == CHOOSE i \in DOMAIN filename :
                      /\ filename[i] = "."
                      /\ \A j \in DOMAIN filename : filename[j] = "." => j <= i
           ext == SubSeq(filename, dot + 1, Len(filename))
       IN [j \in DOMAIN ext |-> Lower(ext[j])] \in ALLOWED_EXTENSIONS

HasCol(file, name) == \E i \in DOMAIN file.columns : file.columns[i] = name

\* df[name]: the cells of the column called name
Col(file, name) == [k \in DOMAIN file.rows |-> file.rows[k][name]]

\* df[[a, b]]: the rows of a two-column frame
Features(file, a, b) ==
    [k \in DOMAIN file.rows |-> <<file.rows[k][a], file.rows[k][b]>>]

\* a file of the given header; each row maps a column name to its cell
File(columns, cells) ==
    [columns |-> columns,
     rows    |-> [k \in DOMAIN cells |->
                     [c \in Range(columns) |->
                         cells[k][CHOOSE i \in DOMAIN columns : columns[i] = c]]]]

\* df.columns = [c.strip() for c in df.columns]
StripColumns(file) ==
    [columns |-> [i \in DOMAIN file.columns |-> Strip(file.columns[i])],
     rows    |-> [k \in DOMAIN file.rows |->
                     [c \in {Strip(x) : x \in Range(file.columns)} |->
                         file.rows[k][CHOOSE x \in Range(file.columns) : Strip(x) = c]]]]

EmptyFile == [columns |-> <<>>, rows |-> <<>>]

AllColumns == <<ColGender, ColAge, ColIncome, ColScore>>

FiveRowsCells ==
    <<<<"Male", 30, 15, 20>>, <<"Male", 30, 15, 20>>, <<"Female", 30, 15, 20>>,
      <<"Female", 30, 15, 20>>, <<"Female", 55, 40, 70>>>>

\* the header of this file carries blanks
FiveRows == File(<<"Gender ", " Age", ColIncome, ColScore>>, FiveRowsCells)

FiveRowsPlain == File(AllColumns, FiveRowsCells)

TwoRowsA == File(AllColumns, <<<<"Female", 20, 10, 10>>, <<"Male", 40, 30, 50>>>>)

TwoRowsB == File(AllColumns, <<<<"Male", 40, 30, 50>>, <<"Female", 60, 50, 90>>>>)

NoGender ==
    File(<<ColAge, ColIncome, ColScore>>, <<<<20, 10, 10>>, <<40, 30, 50>>>>)

NoAge ==
    File(<<ColGender, ColIncome, ColScore>>, <<<<"Female", 10, 10>>, <<"Male", 30, 50>>>>)

NoScore ==
    File(<<ColGender, ColAge, ColIncome>>, <<<<"Female", 20, 10>>, <<"Male", 40, 30>>>>)

Contents ==
    {EmptyFile, FiveRows, FiveRowsPlain, TwoRowsA, TwoRowsB, NoGender, NoAge, NoScore}

FileNames ==
    {<<"a", ".", "c", "s", "v">>, <<"b", ".", "C", "S", "V">>, <<"a", ".", "t", "x", "t">>}

\* what a request carries: no file part, a part without a name, or a file
Inputs ==
    {[has_file |-> FALSE, filename |-> <<>>, content |-> EmptyFile],
     [has_file |-> TRUE,  filename |-> <<>>, content |-> EmptyFile]}
    \cup [has_file : {TRUE}, filename : FileNames, content : Contents]

(***************************************************************************)
(* Responses.  A message is a tuple of its parts; `exception` records the  *)
(* exception a handler caught, which the caller does not see.              *)
(***************************************************************************)
NoCsv == [df |-> EmptyFile, labels |-> <<>>]

NoResponse ==
    [status |-> 0, message |-> <<>>, exception |-> <<>>, labels |-> <<>>,
     insights |-> <<>>, kpis |-> <<>>, csv_url |-> <<>>, csv |-> NoCsv]

Reply(status, message) ==
    [NoResponse EXCEPT !.status = status, !.message = message]

Failure(status, message, exception) ==
    [NoResponse EXCEPT !.status = status, !.message = message,
                       !.exception = exception]

NoEffects == [saved |-> FALSE, clustered |-> FALSE, wrote |-> FALSE]

(***************************************************************************)
(* app.py: analyze                                                         *)
(***************************************************************************)
\* KMeans(n_clusters=5, ...).fit_predict(X): a label in 0..K-1 per row, equal
\* rows labelled alike; which labelling is the library's choice
FitPredict(X) ==
    LET points == {X[i] : i \in DOMAIN X}
    IN {[i \in DOMAIN X |-> a[X[i]]] : a \in [points -> 0..(K - 1)]}

\* the rows of df with the 'Cluster' column added
Clustered(file, labels) ==
    LET g == Col(file, ColGender)
        a == Col(file, ColAge)
        i == Col(file, ColIncome)
        s == Col(file, ColScore)
    IN [k \in DOMAIN file.rows |->
           [Gender |-> g[k], Age |-> a[k], Income |-> i[k], Score |-> s[k],
            Cluster |-> labels[k]]]

\* kpis: total_customers, and the means rounded to 2 decimals (in hundredths)
Kpis(file) ==
    <<Len(file.rows),
      RoundHalfEven(100 * SumSeq(Col(file, ColIncome)), Len(file.rows)),
      RoundHalfEven(100 * SumSeq(Col(file, ColScore)), Len(file.rows))>>

\* the handler's outcomes on an input: the response and what it did
analyze(input) ==
    IF ~input.has_file
    THEN {[resp |-> Reply(302, <<"No file part">>), effects |-> NoEffects]}
    ELSE IF input.filename = <<>>
    THEN {[resp |-> Reply(302, <<"No selected file">>), effects |-> NoEffects]}
    ELSE IF ~allowed_file(input.filename)
    THEN {[resp |-> Reply(302, <<"Invalid file type. Please upload a CSV.">>),
           effects |-> NoEffects]}
    ELSE IF input.content.columns = <<>>
    THEN {[resp |-> Failure(302, <<"Error processing file: ",
                                   "No columns to parse from file">>,
                            <<"EmptyDataError">>),
           effects |-> NoEffects]}
    ELSE LET file == StripColumns(input.content)
         IN IF ~\A i \in DOMAIN AllColumns : HasCol(file, AllColumns[i])
            THEN {[resp |-> Reply(302, <<"Error: CSV missing columns. Required: ",
                                         ColGender, ", ", ColAge, ", ", ColIncome,
                                         ", ", ColScore>>),
                   effects |-> NoEffects]}
            ELSE IF Len(file.rows) < K
            THEN {[resp |-> Failure(302, <<"Error processing file: ",
                                           "n_samples should be >= n_clusters">>,
                                    <<"ValueError">>),
                   effects |-> NoEffects]}
            ELSE {[resp |-> [NoResponse EXCEPT
                               !.status = 200,
                               !.labels = labels,
                               !.insights = generate_insights(Clustered(file, labels)),
                               !.kpis = Kpis(file)],
                   effects |-> [NoEffects EXCEPT !.clustered = TRUE]] :
                    labels \in FitPredict(Features(file, ColIncome, ColScore))}

(***************************************************************************)
(* app/model.py: StandardScaler, KMeans.predict, cluster_income/cluster_age*)
(***************************************************************************)
\* the integer square root of a perfect square
Sqrt(v) == CHOOSE r \in 0..v : r * r = v

Unfitted == [fitted |-> FALSE, n |-> 0, sum |-> <<0, 0>>, root |-> <<0, 0>>]

\* StandardScaler.fit(X): per feature the mean sum/n and the scale root/n,
\* the population standard deviation (1 when it is 0)
ScalerFit(X) ==
    LET n == Len(X)
        sum(j) == SumSeq([k \in DOMAIN X |-> X[k][j]])
        ssq(j) == SumSeq([k \in DOMAIN X |-> X[k][j] * X[k][j]])
        root(j) == LET v == n * ssq(j) - sum(j) * sum(j)
                   IN IF v = 0 THEN n ELSE Sqrt(v)
    IN [fitted |-> TRUE, n |-> n, sum |-> <<sum(1), sum(2)>>,
        root |-> <<root(1), root(2)>>]

\* StandardScaler.transform(X): (x - mean) / scale per feature, as fractions
ScalerTransform(scaler, X) ==
    [k \in DOMAIN X |->
        [j \in 1..2 |-> [p |-> scaler.n * X[k][j] - scaler.sum[j],
                         q |-> scaler.root[j]]]]

\* squared distance of a standardized row to a center, times (q1 * q2)^2
Distance(z, center) ==
    LET d1 == z[1].p - center[1] * z[1].q
        d2 == z[2].p - center[2] * z[2].q
    IN d1 * d1 * z[2].q * z[2].q + d2 * d2 * z[1].q * z[1].q

\* KMeans.predict(X_scaled): the index of the nearest center, the first of equals
Predict(centers, X_scaled) ==
    [k \in DOMAIN X_scaled |->
        CHOOSE c \in 0..(Len(centers) - 1) :
            \A o \in 0..(Len(centers) - 1) :
                \/ Distance(X_scaled[k], centers[c + 1]) < Distance(X_scaled[k], centers[o + 1])
                \/ /\ Distance(X_scaled[k], centers[c + 1]) = Distance(X_scaled[k], centers[o + 1])
                   /\ c <= o]

\* the cluster centers of the two pickled models, which the source does not hold
CentersA == <<<<0, 0>>, <<1, 1>>, <<1, -1>>, <<-1, 1>>, <<-1, -1>>>>
CentersB == <<<<-1, -1>>, <<-1, 1>>, <<0, 0>>, <<1, -1>>, <<1, 1>>>>

ModelSets ==
    {[income |-> CentersA, age |-> CentersB], [income |-> CentersB, age |-> CentersA]}

\* the two feature columns of a route
FeatureCols(route) ==
    IF route = "income" THEN <<ColIncome, ColScore>> ELSE <<ColAge, ColScore>>

OutFile(route, filename) ==
    <<IF route = "income" THEN "clustered_income_" ELSE "clustered_age_", filename>>

\* df.groupby(cluster)[[Age, Income, Score]].mean().round(2) with 'Size',
\* as a dict by cluster id: the means in hundredths
ClusterSummaryOf(file, labels) ==
    LET keys == SortedSeq({labels[i] : i \in DOMAIN labels})
        rows(c) == {i \in DOMAIN labels : labels[i] = c}
        mean(c, col) ==
            LET cells == Col(file, col)
                picked == SelectSeq([i \in DOMAIN labels |-> <<labels[i], cells[i]>>],
                                    LAMBDA e : e[1] = c)
            IN RoundHalfEven(100 * SumSeq([i \in DOMAIN picked |-> picked[i][2]]),
                             Len(picked))
    IN [k \in DOMAIN keys |->
           [cluster |-> keys[k],
            Age     |-> mean(keys[k], ColAge),
            Income  |-> mean(keys[k], ColIncome),
            Score   |-> mean(keys[k], ColScore),
            Size    |-> Cardinality(rows(keys[k]))]]

NoLocal == [df |-> EmptyFile, labels |-> <<>>, scaler |-> Unfitted]

(***************************************************************************)
(* The service: Requests handlers, each in its own thread.                 *)
(***************************************************************************)
NumRequests == 2

Requests == 1..NumRequests

NoRequest == [route |-> "none", has_file |-> FALSE, filename |-> <<>>,
              content |-> EmptyFile]

WithRoute(input, route) ==
    [route |-> route, has_file |-> input.has_file, filename |-> input.filename,
     content |-> input.content]

\* the state of the service once its modules are imported, before any request
AtImport(m) ==
    /\ models = m
    /\ scaler_income = Unfitted
    /\ scaler_age = Unfitted
    /\ uploads = <<>>
    /\ downloads = <<>>
    /\ request = [r \in Requests |-> NoRequest]
    /\ pc = [r \in Requests |-> "idle"]
    /\ local = [r \in Requests |-> NoLocal]
    /\ resp = [r \in Requests |-> NoResponse]
    /\ effects = [r \in Requests |-> NoEffects]

Init ==
    /\ \E m \in ModelSets : AtImport(m)
    /\ df = <<>>
    /\ insights = <<>>
    /\ returned = FALSE

\* app.py, POST /analyze: the whole handler
Analyze(r) ==
    /\ pc[r] = "idle"
    /\ \E input \in Inputs : \E out \in analyze(input) :
          /\ request' = [request EXCEPT ![r] = WithRoute(input, "analyze")]
          /\ resp' = [resp EXCEPT ![r] = out.resp]
          /\ effects' = [effects EXCEPT ![r] = out.effects]
    /\ pc' = [pc EXCEPT ![r] = "done"]
    /\ UNCHANGED <<funcVars, models, scaler_income, scaler_age, uploads,
                   downloads, local>>

\* the handler of request r ends with this response
Return(r, response) ==
    /\ resp' = [resp EXCEPT ![r] = response]
    /\ pc' = [pc EXCEPT ![r] = "done"]

\* the except clause of income_segmentation / age_segmentation
InternalServerError(r, exception) ==
    Return(r, Failure(500, <<"Internal server error">>, exception))

\* run.py, income_segmentation / age_segmentation up to file.save(file_path)
SegmentationReceive(r) ==
    /\ pc[r] = "idle"
    /\ \E route \in {"income", "age"}, input \in Inputs :
          /\ request' = [request EXCEPT ![r] = WithRoute(input, route)]
          /\ IF ~input.has_file
             THEN /\ Return(r, Reply(400, <<"No file part">>))
                  /\ UNCHANGED <<uploads, effects>>
             ELSE IF input.filename = <<>>
             THEN /\ Return(r, Reply(400, <<"No selected file">>))
                  /\ UNCHANGED <<uploads, effects>>
             ELSE /\ uploads' = (input.filename :> input.content) @@ uploads
                  /\ effects' = [effects EXCEPT ![r].saved = TRUE]
                  /\ pc' = [pc EXCEPT ![r] = "saved"]
                  /\ UNCHANGED resp
    /\ UNCHANGED <<funcVars, models, scaler_income, scaler_age, downloads, local>>

\* cluster_income / cluster_age: pd.read_csv(file_path) and df[[...]]
ClusterReadCsv(r) ==
    /\ pc[r] = "saved"
    /\ LET file == uploads[request[r].filename]
           cols == FeatureCols(request[r].route)
       IN IF file.columns = <<>>
          THEN /\ InternalServerError(r, <<"EmptyDataError">>)
               /\ UNCHANGED local
          ELSE IF ~(HasCol(file, cols[1]) /\ HasCol(file, cols[2]))
          THEN /\ InternalServerError(r, <<"KeyError">>)
               /\ UNCHANGED local
          ELSE /\ local' = [local EXCEPT ![r].df = file]
               /\ pc' = [pc EXCEPT ![r] = "read"]
               /\ UNCHANGED resp
    /\ UNCHANGED <<funcVars, models, scaler_income, scaler_age, uploads,
                   downloads, request, effects>>

\* scaler.fit_transform(df_features), first half: the fit of the shared scaler
ClusterFit(r) ==
    /\ pc[r] = "read"
    /\ LET cols == FeatureCols(request[r].route)
           fit  == ScalerFit(Features(local[r].df, cols[1], cols[2]))
       IN IF request[r].route = "income"
          THEN scaler_income' = fit /\ UNCHANGED scaler_age
          ELSE scaler_age' = fit /\ UNCHANGED scaler_income
    /\ pc' = [pc EXCEPT ![r] = "fitted"]
    /\ UNCHANGED <<funcVars, models, uploads, downloads, request, local, resp,
                   effects>>

\* scaler.fit_transform(df_features), second half, and kmeans.predict(X_scaled)
ClusterPredict(r) ==
    /\ pc[r] = "fitted"
    /\ LET route  == request[r].route
           cols   == FeatureCols(route)
           scaler == IF route = "income" THEN scaler_income ELSE scaler_age
           X_scaled == ScalerTransform(scaler, Features(local[r].df, cols[1], cols[2]))
       IN local' = [local EXCEPT ![r].labels = Predict(models[route], X_scaled),
                                 ![r].scaler = scaler]
    /\ effects' = [effects EXCEPT ![r].clustered = TRUE]
    /\ pc' = [pc EXCEPT ![r] = "predicted"]
    /\ UNCHANGED <<funcVars, models, scaler_income, scaler_age, uploads,
                   downloads, request, resp>>

\* df.to_csv(out_file, index=False)
ClusterToCsv(r) ==
    /\ pc[r] = "predicted"
    /\ downloads' = (OutFile(request[r].route, request[r].filename)
                        :> [df |-> local[r].df, labels |-> local[r].labels])
                    @@ downloads
    /\ effects' = [effects EXCEPT ![r].wrote = TRUE]
    /\ pc' = [pc EXCEPT ![r] = "written"]
    /\ UNCHANGED <<funcVars, models, scaler_income, scaler_age, uploads, request,
                   local, resp>>

\* the cluster summary, the return of cluster_*, and the route's jsonify
ClusterSummary(r) ==
    /\ pc[r] = "written"
    /\ LET file == local[r].df
           out  == OutFile(request[r].route, request[r].filename)
       IN IF ~(HasCol(file, ColAge) /\ HasCol(file, ColIncome) /\ HasCol(file, ColScore))
          THEN InternalServerError(r, <<"KeyError">>)
          ELSE Return(r, [NoResponse EXCEPT
                            !.status = 200,
                            !.labels = local[r].labels,
                            !.insights = ClusterSummaryOf(file, local[r].labels),
                            !.csv_url = out,
                            !.csv = downloads[out]])
    /\ UNCHANGED <<funcVars, models, scaler_income, scaler_age, uploads,
                   downloads, request, local, effects>>

Next ==
    \E r \in Requests :
        \/ Analyze(r)
        \/ SegmentationReceive(r)
        \/ ClusterReadCsv(r)
        \/ ClusterFit(r)
        \/ ClusterPredict(r)
        \/ ClusterToCsv(r)
        \/ ClusterSummary(r)

Spec == Init /\ [][Next]_vars

(***************************************************************************)
(* The tables generate_insights is applied to                              *)
(***************************************************************************)
MaxRows == 3            \* rows of a table with rows of several clusters
MaxClusterSize == 11    \* rows of a one-cluster table of mixed genders
LargeClusterSize == 200 \* rows of a large one-cluster table

Row(g, a, i, s, c) ==
    [Gender |-> g, Age |-> a, Income |-> i, Score |-> s, Cluster |-> c]

\* one-row tables: the cluster's means are the row's values
ClassifyTables ==
    {<<Row("Female", a, i, s, 0)>> :
        a \in {34, 35}, i \in {39, 40, 41, 69, 70, 71}, s \in {39, 40, 41, 59, 60, 61, 69, 70, 71}}

\* tables of up to MaxRows rows spread over the K clusters
AggregateRows ==
    {Row(p[1], p[2], p[3], p[4], c) :
        p \in {<<"Female", 34, 80, 80>>, <<"Male", 35, 80, 80>>,
               <<"Male", 35, 30, 30>>, <<NaN, 36, 60, 60>>},
        c \in 0..(K - 1)}

AggregateTables == UNION {[1..n -> AggregateRows] : n \in 1..MaxRows}

\* one cluster of f Female, m Male, o Other rows and x rows without a gender
GenderTable(f, m, o, x) ==
    [i \in 1..(f + m + o + x) |->
        Row(IF i <= f THEN "Female"
            ELSE IF i <= f + m THEN "Male"
            ELSE IF i <= f + m + o THEN "Other" ELSE NaN,
            30, 80, 80, 0)]

GenderTables ==
    {GenderTable(c[1], c[2], c[3], c[4]) :
        c \in {c \in (0..MaxClusterSize) \X (0..MaxClusterSize)
                       \X (0..MaxClusterSize) \X (0..MaxClusterSize) :
                 c[1] + c[2] + c[3] + c[4] \in 1..MaxClusterSize}}

LargeTables ==
    {GenderTable(f, LargeClusterSize - f, 0, 0) : f \in 85..115}

\* one large cluster whose means lie within 1/LargeClusterSize of the values
\* of `base`: every row is `base`, the first row moved by `delta`
NearTable(base, delta) ==
    [i \in 1..LargeClusterSize |->
        IF i = 1
        THEN Row("Male", base[1] + delta[1], base[2] + delta[2], base[3] + delta[3], 0)
        ELSE Row("Male", base[1], base[2], base[3], 0)]

NearTables ==
    {NearTable(base, delta) :
        base \in {<<35, 70, 71>>, <<35, 71, 70>>, <<35, 80, 40>>, <<35, 40, 61>>,
                  <<35, 30, 60>>, <<35, 40, 30>>, <<35, 80, 80>>},
        delta \in {-1, 0, 1} \X {-1, 0, 1} \X {-1, 0, 1}}

Tables ==
    ClassifyTables \cup AggregateTables \cup GenderTables \cup LargeTables
        \cup NearTables

InitInsights ==
    /\ df \in Tables
    /\ insights = <<>>
    /\ returned = FALSE
    /\ AtImport([income |-> CentersA, age |-> CentersB])

\* insights = generate_insights(df)
GenerateInsights ==
    /\ ~returned
    /\ insights' = generate_insights(df)
    /\ returned' = TRUE
    /\ UNCHANGED <<df, serviceVars>>

NextInsights == GenerateInsights

SpecInsights == InitInsights /\ [][NextInsights]_vars

(***************************************************************************)
(* Properties of generate_insights                                         *)
(***************************************************************************)
\* the rows of df that carry cluster id c, as a set of row numbers
Members(c) == {i \in DOMAIN df : df[i].Cluster = c}

ColumnSum(c, col) ==
    LET rows == SelectSeq(df, LAMBDA r : r.Cluster = c)
    IN SumSeq([i \in DOMAIN rows |-> rows[i][col]])

\* row n of the ordered decision table, for an income i/d and a score s/d
RuleMatches(n, i, s, d) ==
    CASE n = 1 -> i > 70 * d /\ s > 70 * d
      [] n = 2 -> i > 70 * d /\ s < 40 * d
      [] n = 3 -> i < 40 * d /\ s > 60 * d
      [] n = 4 -> i < 40 * d /\ s < 40 * d
      [] n = 5 -> TRUE

FirstMatch(i, s, d) ==
    CHOOSE n \in 1..5 :
        RuleMatches(n, i, s, d) /\ \A m \in 1..(n - 1) : ~RuleMatches(m, i, s, d)

\* the outcome of row n; `young` chooses the variant of row 1
TableOutcome(n, young) ==
    CASE n = 1 /\ young ->
            [label |-> "VIP / Big Spenders", color |-> "success",
             desc |-> DescYoungVip, action |-> ActionYoungVip]
      [] n = 1 /\ ~young ->
            [label |-> "VIP / Big Spenders", color |-> "success",
             desc |-> DescEstablished, action |-> ActionEstablished]
      [] n = 2 -> [label |-> "Wealthy Savers", color |-> "warning",
                   desc |-> DescSavers, action |-> ActionSavers]
      [] n = 3 -> [label |-> "Young Trendsetters", color |-> "info",
                   desc |-> DescTrend, action |-> ActionTrend]
      [] n = 4 -> [label |-> "Budget Conscious", color |-> "secondary",
                   desc |-> DescBudget, action |-> ActionBudget]
      [] n = 5 -> [label |-> "Average Customer", color |-> "primary",
                   desc |-> DescAverage, action |-> ActionAverage]

Outcome(ins) ==
    [label |-> ins.label, color |-> ins.color, desc |-> ins.desc, action |-> ins.action]

\* C1: every cluster of the table gets exactly one Insight, and its label,
\* color, description and action are those of the first row of the ordered
\* decision table that the cluster's mean income and mean score satisfy,
\* with strict comparisons (the young variant of row 1 iff the mean age is
\* below 35); a mean exactly at 40, 60 or 70 that no earlier row catches
\* yields "Average Customer".
C1_DecisionTable ==
    returned =>
        /\ \A c \in {df[i].Cluster : i \in DOMAIN df} :
              Cardinality({k \in DOMAIN insights : insights[k].cluster = c}) = 1
        /\ \A k \in DOMAIN insights :
              LET c == insights[k].cluster
                  n == Cardinality(Members(c))
                  i == ColumnSum(c, "Income")
                  s == ColumnSum(c, "Score")
                  a == ColumnSum(c, "Age")
              IN Outcome(insights[k]) = TableOutcome(FirstMatch(i, s, n), a < 35 * n)

\* C1 witness: a cluster whose mean income and mean score are exactly 70 has
\* been classified "Average Customer".
C1_Witness ==
    /\ returned
    /\ \E k \in DOMAIN insights :
          LET c == insights[k].cluster
              n == Cardinality(Members(c))
          IN /\ ColumnSum(c, "Income") = 70 * n
             /\ ColumnSum(c, "Score") = 70 * n
             /\ insights[k].label = "Average Customer"

\* C2: the gender profile of every Insight is Female Dominated when its
\* female_pct > 55, otherwise Male Dominated when its male_pct > 55,
\* otherwise Balanced, whatever the label (strict comparisons, the female
\* test first).
C2_GenderProfile ==
    returned =>
        \A k \in DOMAIN insights :
            LET ins == insights[k]
            IN ins.gender_profile =
                  IF ins.female_pct > 55 THEN "Female Dominated"
                  ELSE IF ins.male_pct > 55 THEN "Male Dominated"
                  ELSE "Balanced"

\* C2 witness: a cluster with female_pct exactly 55 (and male_pct <= 55) has
\* been given the Balanced profile.
C2_Witness ==
    /\ returned
    /\ \E k \in DOMAIN insights :
          /\ insights[k].female_pct = 55
          /\ insights[k].male_pct <= 55
          /\ insights[k].gender_profile = "Balanced"

\* C8: the returned list holds exactly one Insight per cluster id that
\* occurs in the table, in strictly ascending cluster id order; an id of
\* 0..K-1 without rows has no entry; each entry's size is the number of rows
\* carrying its id, so the sizes sum to the number of rows.
C8_OnePerClusterAscending ==
    returned =>
        LET ids == {df[i].Cluster : i \in DOMAIN df}
        IN /\ Len(insights) = Cardinality(ids)
           /\ {insights[k].cluster : k \in DOMAIN insights} = ids
           /\ \A j, k \in DOMAIN insights :
                 j < k => insights[j].cluster < insights[k].cluster
           /\ \A k \in DOMAIN insights :
                 /\ insights[k].size = Cardinality(Members(insights[k].cluster))
                 /\ insights[k].size > 0
           /\ SumSeq([k \in DOMAIN insights |-> insights[k].size]) = Len(df)

\* C8 witness: a table whose rows are not in cluster id order and that
\* leaves a cluster id between two occurring ids without rows has been
\* aggregated into several Insights.
C8_Witness ==
    /\ returned
    /\ Len(insights) >= 2
    /\ \E i \in DOMAIN df : i > 1 /\ df[i].Cluster < df[i - 1].Cluster
    /\ \E c \in 0..(K - 1) :
          /\ Members(c) = {}
          /\ \E lo, hi \in DOMAIN insights :
                insights[lo].cluster < c /\ c < insights[hi].cluster

\* C9 (as claimed): in every Insight female_pct + male_pct <= 100.
C9_PercentagesAtMost100 ==
    returned =>
        \A k \in DOMAIN insights :
            insights[k].female_pct + insights[k].male_pct <= 100

\* the decision table applied to the values an Insight reports
\* (avg_income and avg_score in tenths, avg_age an integer)
SelfConsistent(ins) ==
    Outcome(ins) =
        TableOutcome(FirstMatch(ins.avg_income, ins.avg_score, 10), ins.avg_age < 35)

\* C10 (as claimed): every returned Insight's label and description variant
\* are the ones the decision table yields on the Insight's own reported
\* avg_income, avg_score and avg_age.
C10_SelfConsistent ==
    returned => \A k \in DOMAIN insights : SelfConsistent(insights[k])

\* no reported value sits exactly on a threshold the label depends on
OffThreshold(ins) ==
    /\ ins.avg_income \notin {400, 700}
    /\ ins.avg_score \notin {400, 600, 700}
    /\ ins.label = "VIP / Big Spenders" => ins.avg_age # 35

\* C10 (amended): every returned Insight whose reported avg_income is neither
\* 40.0 nor 70.0, whose reported avg_score is none of 40.0, 60.0, 70.0 and,
\* when its label is "VIP / Big Spenders", whose reported avg_age is not 35,
\* is self-consistent.
C10_SelfConsistentOffThreshold ==
    returned =>
        \A k \in DOMAIN insights :
            OffThreshold(insights[k]) => SelfConsistent(insights[k])

\* C10 witness: a cluster whose means are not the values it reports (mean
\* age between 34 and 35, mean income above 70 by less than 0.05) has been
\* given a self-consistent Insight off the thresholds.
C10_Witness ==
    /\ returned
    /\ \E k \in DOMAIN insights :
          LET c == insights[k].cluster
              n == Cardinality(Members(c))
          IN /\ OffThreshold(insights[k])
             /\ SelfConsistent(insights[k])
             /\ ColumnSum(c, "Income") # 70 * n
             /\ ColumnSum(c, "Income") * 10 # insights[k].avg_income * n
             /\ ColumnSum(c, "Age") * 1 # insights[k].avg_age * n

(***************************************************************************)
(* Properties of the request handlers                                      *)
(***************************************************************************)
Arrived(r) == pc[r] # "idle"
Done(r) == pc[r] = "done"

SchemaMessage ==
    <<"Error: CSV missing columns. Required: ",
      ColGender, ", ", ColAge, ", ", ColIncome, ", ", ColScore>>

\* a parsed table that lacks a required column after header trimming
MissingRequired(content) ==
    /\ content.columns # <<>>
    /\ \E i \in DOMAIN AllColumns : ~HasCol(StripColumns(content), AllColumns[i])

\* C3 (as claimed): a request of any route that uploads a .csv table lacking
\* a required column after header trimming runs no clustering and writes no
\* output file, and ends with the schema error that names the four required
\* columns, without an Insight.
C3_SchemaError ==
    \A r \in Requests :
        (/\ Arrived(r)
         /\ request[r].has_file
         /\ allowed_file(request[r].filename)
         /\ MissingRequired(request[r].content))
        => /\ ~effects[r].clustered
           /\ ~effects[r].wrote
           /\ Done(r) => /\ resp[r].message = SchemaMessage
                         /\ resp[r].insights = <<>>

\* a request without a file part, with an empty file name or with a file
\* name whose extension is not csv
BadUpload(req) ==
    \/ ~req.has_file
    \/ req.filename = <<>>
    \/ ~allowed_file(req.filename)

RejectionMessages ==
    {<<"No file part">>, <<"No selected file">>,
     <<"Invalid file type. Please upload a CSV.">>}

\* C4 (as claimed): a request of any route without a file part, with an
\* empty file name or with an extension other than csv saves nothing to
\* uploads, runs no clustering and writes nothing to downloads, and ends
\* with a user-facing rejection.
C4_InputRejected ==
    \A r \in Requests :
        (Arrived(r) /\ BadUpload(request[r]))
        => /\ effects[r] = NoEffects
           /\ Done(r) => /\ resp[r].message \in RejectionMessages
                         /\ resp[r].exception = <<>>

\* C5 (as claimed): two requests of a route that failed with an exception
\* inside the handler got the same message, whatever the exceptions were.
C5_GenericFailure ==
    \A r1, r2 \in Requests :
        (/\ Done(r1) /\ Done(r2)
         /\ request[r1].route = request[r2].route
         /\ resp[r1].exception # <<>>
         /\ resp[r2].exception # <<>>)
        => resp[r1].message = resp[r2].message

\* the response of an API request handled with no other request around
SoloResponse(m, req) ==
    IF ~req.has_file THEN Reply(400, <<"No file part">>)
    ELSE IF req.filename = <<>> THEN Reply(400, <<"No selected file">>)
    ELSE IF req.content.columns = <<>>
    THEN Failure(500, <<"Internal server error">>, <<"EmptyDataError">>)
    ELSE LET cols == FeatureCols(req.route)
         IN IF ~(HasCol(req.content, cols[1]) /\ HasCol(req.content, cols[2]))
            THEN Failure(500, <<"Internal server error">>, <<"KeyError">>)
            ELSE IF ~(HasCol(req.content, ColAge) /\ HasCol(req.content, ColIncome)
                        /\ HasCol(req.content, ColScore))
            THEN Failure(500, <<"Internal server error">>, <<"KeyError">>)
            ELSE LET X == Features(req.content, cols[1], cols[2])
                     labels == Predict(m[req.route], ScalerTransform(ScalerFit(X), X))
                 IN [NoResponse EXCEPT
                       !.status = 200,
                       !.labels = labels,
                       !.insights = ClusterSummaryOf(req.content, labels),
                       !.csv_url = OutFile(req.route, req.filename),
                       !.csv = [df |-> req.content, labels |-> labels]]

\* C6 (as claimed): under every interleaving, the response of a finished
\* API request (its cluster per row, its summary, the output CSV it reports)
\* is the one the request gets when handled alone.
C6_RequestIsolation ==
    \A r \in Requests :
        (Done(r) /\ request[r].route \in {"income", "age"})
        => resp[r] = SoloResponse(models, request[r])

\* C7 (as claimed): the scalers of cluster_income and cluster_age keep the
\* state they had at load, and all requests of a route are transformed with
\* the same scaler state.
C7_ScalerUnchanged ==
    /\ scaler_income = Unfitted
    /\ scaler_age = Unfitted
    /\ \A r1, r2 \in Requests :
          (/\ effects[r1].clustered /\ effects[r2].clustered
           /\ request[r1].route = request[r2].route
           /\ request[r1].route \in {"income", "age"})
          => local[r1].scaler = local[r2].scaler

====
